---- MODULE Spec2Model ----
(***************************************************************************)
(* Model of the agent loop of the Java code analyzer:                      *)
(*   analyzer/core/agent.py      CodeAnalysisAgent                          *)
(*   analyzer/llm/base.py        Message, ToolCall, LLMResponse            *)
(*   analyzer/llm/groq_client.py GroqLLMClient                             *)
(*   analyzer/tools/registry.py  ToolRegistry                              *)
(*   analyzer/utils/exceptions.py                                          *)
(*                                                                         *)
(* Representation.  A Python str is a sequence of tokens (the literal      *)
(* pieces and the interpolated values of the f-strings that build it), so  *)
(* "" is <<>> and "starts with" is a prefix test.  An Optional value is a  *)
(* sequence of length 0 (None) or 1 (the value).  An exception is a record *)
(* with its class, its str() and its __context__.                          *)
(***************************************************************************)
EXTENDS Integers, Sequences, FiniteSets, TLC

(* ------------------------------- bounds -------------------------------- *)
MaxIter  == 2   \* largest max_iterations an agent is constructed with
MaxCalls == 2   \* most tool calls in one LLM response
MaxHistory == 1 \* longest conversation analyze_file is called on
MaxAgain == 3   \* longest conversation a further analyze_file is called on
MaxInst  == 2   \* tool objects of one name that callers hand to register
MaxParams == 2  \* most parameters a tool definition declares

(* --------------------------- Optional values --------------------------- *)
None      == <<>>
Some(v)   == <<v>>
IsNone(o) == Len(o) = 0
Get(o)    == o[1]

\* Python truthiness of an Optional[str]: None and "" are falsy.
Truthy_notNone(o) == ~IsNone(o)
Truthy(o) == ~IsNone(o) /\ Len(Get(o)) > 0

(* ------------------------------ exceptions ----------------------------- *)
\* class -> base class, from the class statements of utils/exceptions.py
Parent(c) ==
  CASE c = "AnalyzerError"       -> "Exception"
    [] c = "LLMError"            -> "AnalyzerError"
    [] c = "LLMConnectionError"  -> "LLMError"
    [] c = "LLMResponseError"    -> "LLMError"
    [] c = "ToolError"           -> "AnalyzerError"
    [] c = "ToolNotFoundError"   -> "ToolError"
    [] c = "ToolExecutionError"  -> "ToolError"
    [] c = "AgentError"          -> "AnalyzerError"
    [] c = "AgentTimeoutError"   -> "AgentError"
    [] c = "TypeError"           -> "Exception"
    [] OTHER                     -> "BaseException"

RECURSIVE IsSubclass(_, _)
IsSubclass(c, base) ==
  IF c = base THEN TRUE
  ELSE IF c = "BaseException" THEN FALSE
  ELSE IsSubclass(Parent(c), base)

\* An exception object: its class, str(e), and the exception that was being
\* handled when it was raised (Python sets __context__ implicitly).
Exc(type, msg, ctx) == [type |-> type, msg |-> msg, context |-> ctx]

\* ToolExecutionError.__init__: f"Tool '{tool_name}' failed: {message}"
ToolExecutionError(tool_name, message) ==
  Exc("ToolExecutionError", <<"Tool '", tool_name, "' failed: ">> \o message, None)

RECURSIVE RootCause(_)
RootCause(e) == IF IsNone(e.context) THEN e ELSE RootCause(Get(e.context))

\* e and the exceptions reachable from it through __context__
RECURSIVE Chain(_)
Chain(e) == IF IsNone(e.context) THEN {e} ELSE {e} \cup Chain(Get(e.context))

\* the outcome of a call: it returned a value or raised
Returned(v) == [kind |-> "return", value |-> v]
Raised(e)   == [kind |-> "raise", exc |-> e]

(* ------------------------------- messages ------------------------------ *)
\* Message(role=..., content=..., tool_call_id=..., name=..., tool_calls=...)
Message(role, content, tool_call_id, name) ==
  [role |-> role, content |-> content, tool_call_id |-> tool_call_id,
   name |-> name, tool_calls |-> None]

SYSTEM_PROMPT == <<"You are an expert Java code analysis agent. [...]">>

SystemMessage == Message("system", Some(SYSTEM_PROMPT), None, None)

UserMessage(file_path) ==
  Message("user",
          Some(<<"Analyze the Java file at path: ", file_path,
                 "\n\nPerform a thorough analysis and provide actionable recommendations.">>),
          None, None)

SummaryPrompt_system ==
  Message("system",
          Some(<<"Please provide a final summary of your analysis now based on what you've learned so far.">>),
          None, None)
SummaryPrompt ==
  Message("user",
          Some(<<"Please provide a final summary of your analysis now based on what you've learned so far.">>),
          None, None)

\* Message(role="assistant", content=response.content)
AssistantMessage(content) == Message("assistant", content, None, None)

\* The message _handle_tool_calls appends for one invocation.
ToolMessage_first(calls, i, result) ==
  Message("tool", Some(result), Some(calls[1].id), Some(calls[1].name))
ToolMessage(calls, i, result) ==
  Message("tool", Some(result), Some(calls[i].id), Some(calls[i].name))

\* Python truthiness of an Optional[str] that holds an id or a name (these
\* are atomic strings here): None and "" are falsy.
TruthyName(o) == ~IsNone(o) /\ Get(o) # ""

\* Message.to_dict: the keys it puts in the dictionary, and the dictionary
DictKeys_nameless(m) ==
  {"role"}
    \cup (IF ~IsNone(m.content) THEN {"content"} ELSE {})
    \cup (IF TruthyName(m.tool_call_id) THEN {"tool_call_id"} ELSE {})
    \cup (IF ~IsNone(m.tool_calls) /\ Len(Get(m.tool_calls)) > 0
          THEN {"tool_calls"} ELSE {})
DictKeys(m) ==
  {"role"}
    \cup (IF ~IsNone(m.content) THEN {"content"} ELSE {})
    \cup (IF TruthyName(m.tool_call_id) THEN {"tool_call_id"} ELSE {})
    \cup (IF TruthyName(m.name) THEN {"name"} ELSE {})
    \cup (IF ~IsNone(m.tool_calls) /\ Len(Get(m.tool_calls)) > 0
          THEN {"tool_calls"} ELSE {})

to_dict(m) == [k \in DictKeys(m) |-> IF k = "role" THEN m.role ELSE Get(m[k])]

(* ------------------------------ LLMResponse ---------------------------- *)
has_tool_calls_bare(r) == Len(r.tool_calls) > 0 /\ IsNone(r.content)
has_tool_calls(r) == Len(r.tool_calls) > 0
is_final(r)       == ~has_tool_calls(r) /\ ~IsNone(r.content)

(* ------------------------------- registry ------------------------------ *)
\* A tool object: its name property and which instance it is.
Tool(name, inst) == [name |-> name, inst |-> inst]

\* The registry's dict _tools is the sequence of its values in insertion
\* order; the key of an entry is the entry's name.
\* register_default_tools: the three tools, one instance each
DefaultTools ==
  <<Tool("read_file", 1), Tool("static_analysis", 1), Tool("complexity_analysis", 1)>>

\* list(self._tools.keys())
get_tool_names(reg) == [i \in DOMAIN reg |-> reg[i].name]

\* tool_name in self._tools
has_tool(reg, tool_name) == \E i \in DOMAIN reg : reg[i].name = tool_name

\* ", ".join(names)
Join_head(names) == IF Len(names) = 0 THEN <<>> ELSE <<names[1]>>
RECURSIVE Join(_)
Join(names) ==
  IF Len(names) = 0 THEN <<>>
  ELSE IF Len(names) = 1 THEN <<names[1]>>
  ELSE <<names[1], ", ">> \o Join(Tail(names))

\* get_tool's error for an absent name
ToolNotFoundError(reg, tool_name) ==
  Exc("ToolNotFoundError",
      <<"Tool '", tool_name, "' not found. Available tools: ">>
        \o Join(get_tool_names(reg)), None)

\* ToolRegistry.register: self._tools[tool.name] = tool (a dict keeps the
\* position of a key it already has)
register_append(reg, tool) == Append(reg, tool)
register(reg, tool) ==
  IF has_tool(reg, tool.name)
  THEN [i \in DOMAIN reg |-> IF reg[i].name = tool.name THEN tool ELSE reg[i]]
  ELSE Append(reg, tool)

\* ToolRegistry.unregister: if tool_name in self._tools: del self._tools[tool_name]
unregister(reg, tool_name) ==
  LET keep(t) == t.name # tool_name IN SelectSeq(reg, keep)

\* ToolRegistry.get_tool
get_tool(reg, tool_name) ==
  IF ~has_tool(reg, tool_name)
  THEN Raised(ToolNotFoundError(reg, tool_name))
  ELSE Returned(reg[CHOOSE i \in DOMAIN reg : reg[i].name = tool_name])

\* The declared parameters of a registered tool (all three default tools
\* declare the single required string parameter file_path).
RequiredParams(tool_name) == {"file_path"}

\* ToolParameter(name=..., type=..., description=..., required=..., default=...)
\* default is an Optional: None, or the value (written as its JSON text)
ToolParameter(name, type, description, required, default) ==
  [name |-> name, type |-> type, description |-> description,
   required |-> required, default |-> default]

\* ToolDefinition(name=..., description=..., parameters=...); the dict
\* parameters is the sequence of its items in insertion order
ToolDefinition(name, description, parameters) ==
  [name |-> name, description |-> description, parameters |-> parameters]

\* the keys of properties[param_name]
PropKeys_truthy(param) ==
  {"type", "description"}
    \cup (IF ~IsNone(param.default) /\ Get(param.default) # ""
          THEN {"default"} ELSE {})
PropKeys(param) ==
  {"type", "description"}
    \cup (IF ~IsNone(param.default) THEN {"default"} ELSE {})

\* properties[param_name]
Property(param) ==
  [k \in PropKeys(param) |->
     IF k = "type" THEN param.type
     ELSE IF k = "description" THEN param.description
     ELSE Get(param.default)]

\* ToolDefinition.to_function_schema
to_function_schema(d) ==
  LET items == d.parameters
      isRequired(item) == item.param.required
      keyOf(i) == items[i].key
  IN [type |-> "function",
      function |->
        [name |-> d.name,
         description |-> d.description,
         parameters |->
           [type |-> "object",
            properties |->
              [k \in {keyOf(i) : i \in DOMAIN items} |->
                 Property(items[CHOOSE i \in DOMAIN items : keyOf(i) = k].param)],
            required |->
              [i \in DOMAIN SelectSeq(items, isRequired) |->
                 SelectSeq(items, isRequired)[i].key]]]]

\* the description property of the three tools
ToolDescription(tool_name) ==
  CASE tool_name = "read_file" ->
         <<"Reads the contents of a Java source file. [...]">>
    [] tool_name = "static_analysis" ->
         <<"Performs static code analysis to detect issues like: [...]">>
    [] OTHER ->
         <<"Calculates code complexity metrics: [...]">>

\* get_parameters of the three tools
get_parameters(tool_name) ==
  <<[key |-> "file_path",
     param |-> ToolParameter("file_path", "string",
                             IF tool_name = "read_file"
                             THEN <<"Path to the Java file to read (e.g., 'src/Main.java')">>
                             ELSE <<"Path to the Java file to analyze">>,
                             TRUE, None)]>>

\* BaseTool.get_definition
get_definition(tool_name) ==
  ToolDefinition(tool_name, ToolDescription(tool_name), get_parameters(tool_name))

\* BaseTool.to_function_schema of one registered tool
ToolSchema(tool_name) == to_function_schema(get_definition(tool_name))

get_tool_schemas_reversed(reg) ==
  [i \in DOMAIN reg |-> ToolSchema(reg[Len(reg) + 1 - i].name)]
get_tool_schemas(reg) == [i \in DOMAIN reg |-> ToolSchema(reg[i].name)]

\* kwargs: a sequence of <<name, value>> pairs
ParamNames(parameters) == {parameters[i][1] : i \in DOMAIN parameters}
ParamValue(parameters, k) ==
  (CHOOSE i \in DOMAIN parameters : parameters[i][1] = k)

(* ------------------------- inputs of the model ------------------------- *)
FilePaths == {"Main.java"}

\* what the model may ask for: a registered tool with its parameter, the same
\* tool without its required parameter, and a name nobody registered
Invocations ==
  { [name |-> "read_file", parameters |-> <<<<"file_path", "Main.java">>>>],
    [name |-> "read_file", parameters |-> <<>>],
    [name |-> "frobnicate", parameters |-> <<<<"file_path", "Main.java">>>>] }

CallId(i) == "call_" \o ToString(i)

ToolCallLists ==
  UNION { { [i \in 1..n |-> [id |-> CallId(i), name |-> f[i].name,
                              parameters |-> f[i].parameters]]
            : f \in [1..n -> Invocations] }
          : n \in 0..MaxCalls }

Contents == {None, Some(<<>>), Some(<<"Done.">>)}

Responses == [content : Contents, tool_calls : ToolCallLists]

\* The forced-summary call never looks at the tool calls of its response, so
\* one requested invocation stands for any number of them there.
SummaryResponses == {r \in Responses : Len(r.tool_calls) <= 1}

ToolTexts == {<<"OK">>}
ToolFailureCauses(file_path) == {<<"File not found: ", file_path>>}

(* ------------------------------ GroqLLMClient -------------------------- *)
\* The JSON text of a tool call's arguments as the provider sends it: the
\* members of the object, and whether the text is complete (a truncated text
\* has lost its closing brace).
Arguments(members, complete) == [members |-> members, complete |-> complete]

\* json.loads(tool_call.function.arguments)
json_loads(text) ==
  IF text.complete
  THEN Returned(text.members)
  ELSE Raised(Exc("JSONDecodeError", <<"Expecting ',' delimiter">>, None))

\* The provider's completion that carries response r.
Completion(r) ==
  [content |-> r.content,
   tool_calls |-> [i \in DOMAIN r.tool_calls |->
                     [id |-> r.tool_calls[i].id,
                      function |-> [name |-> r.tool_calls[i].name,
                                    arguments |-> Arguments(r.tool_calls[i].parameters,
                                                            TRUE)]]]]

\* A completion whose only tool call has an undecodable argument text.
TruncatedCompletion ==
  [content |-> None,
   tool_calls |-> <<[id |-> CallId(1),
                     function |-> [name |-> "read_file",
                                   arguments |-> Arguments(<<>>, FALSE)]]>>]

\* what the provider's SDK raises when the request itself fails
ProviderErrors == {Exc("APIConnectionError", <<"Connection error.">>, None)}

\* the outcomes of self.client.chat.completions.create(**request_params)
ProviderOutcomes ==
  {Returned(Completion(r)) : r \in Responses}
    \cup {Returned(TruncatedCompletion)}
    \cup {Raised(e) : e \in ProviderErrors}

\* _parse_response's handler:
\* except Exception as e: raise LLMResponseError(f"Invalid response from Groq: ...")
ParseExcept(e) ==
  Exc("LLMResponseError", <<"Invalid response from Groq: ">> \o e.msg, Some(e))

\* GroqLLMClient._parse_response
parse_response(raw) ==
  LET loaded == [i \in DOMAIN raw.tool_calls |->
                   json_loads(raw.tool_calls[i].function.arguments)]
      bad == {i \in DOMAIN loaded : loaded[i].kind = "raise"}
  IN IF bad # {}
     THEN Raised(ParseExcept(loaded[CHOOSE i \in bad : \A j \in bad : i <= j].exc))
     ELSE Returned([content |-> raw.content,
                    tool_calls |-> [i \in DOMAIN raw.tool_calls |->
                                      [id |-> raw.tool_calls[i].id,
                                       name |-> raw.tool_calls[i].function.name,
                                       parameters |-> loaded[i].value]]])

\* chat's handler:
\* except Exception as e: raise LLMConnectionError(f"Groq API error: {str(e)}")
ChatExcept(e) ==
  Exc("LLMConnectionError", <<"Groq API error: ">> \o e.msg, Some(e))

\* GroqLLMClient.chat, given the outcome of the provider call it makes
GroqChat(outcome) ==
  IF outcome.kind = "raise"
  THEN Raised(ChatExcept(outcome.exc))
  ELSE LET parsed == parse_response(outcome.value)
       IN IF parsed.kind = "raise" THEN Raised(ChatExcept(parsed.exc)) ELSE parsed

(* -------------------------------- state -------------------------------- *)
VARIABLES
  messages,        \* self.messages
  tools,           \* self.tool_registry._tools (tools in insertion order)
  max_iterations,  \* self.max_iterations
  pc,              \* where the agent is: idle, loop, chat, summary, acting, tool, done
  iteration,       \* _agent_loop's local
  call,            \* Optional: arguments of the latest llm.chat call
  reply,           \* Optional: reply to the call in flight (chat or tool)
  tool_calls,      \* _handle_tool_calls's argument: response.tool_calls
  idx,             \* invocations of tool_calls already handled
  result,          \* Optional: how the latest analyze_file ended
  nDeciding,       \* chat calls issued in the loop by the current run
  nSummary,        \* forced-summary chat calls issued by the current run
  nTools,          \* registry.execute_tool calls issued by the current run
  allToolCalls,    \* every reply of the current run so far was a normal
                   \* return, and every chat reply carried a tool call
  base,            \* length of the conversation when analyze_file was called
  op,              \* Optional: the latest call made from outside the agent
                   \* (on the registry, a message, a tool definition, the
                   \* LLM client or a HealthCheck), with its argument and
                   \* outcome
  checks           \* HealthCheck.checks: tuples (name, passed, message)

vars == <<messages, tools, max_iterations, pc, iteration, call, reply,
          tool_calls, idx, result, nDeciding, nSummary, nTools, allToolCalls,
          base, op, checks>>

\* CodeAnalysisAgent.__init__
Init ==
  /\ messages = <<SystemMessage>>
  /\ tools \in {<<>>, DefaultTools}
  /\ max_iterations \in (-1)..MaxIter   \* the constructor takes any int
  /\ pc = "idle"
  /\ iteration = 0
  /\ call = None
  /\ reply = None
  /\ tool_calls = <<>>
  /\ idx = 0
  /\ result = None
  /\ nDeciding = 0
  /\ nSummary = 0
  /\ nTools = 0
  /\ allToolCalls = TRUE
  /\ base = 0
  /\ op = None
  /\ checks = <<>>


(* ------------------------------ analyze_file --------------------------- *)
\* analyze_file's handler: except Exception as e: raise AgentError(...)
AnalyzeFileExcept_reraise(e) == e
AnalyzeFileExcept(e) ==
  Exc("AgentError", <<"Analysis failed: ">> \o e.msg, Some(e))

\* analyze_file, up to the call of _agent_loop and the initialisation of its
\* local iteration
analyze_file_carry(limit, file_path) ==
  /\ pc \in {"idle", "done"}
  /\ Len(messages) <= limit
  /\ messages' = Append(messages, UserMessage(file_path))
  /\ iteration' = iteration
  /\ pc' = "loop"
  /\ call' = None
  /\ reply' = None
  /\ tool_calls' = <<>>
  /\ idx' = 0
  /\ result' = None
  /\ nDeciding' = 0
  /\ nSummary' = 0
  /\ nTools' = 0
  /\ allToolCalls' = TRUE
  /\ base' = Len(messages)
  /\ UNCHANGED <<tools, max_iterations, op, checks>>
analyze_file(limit, file_path) ==
  /\ pc \in {"idle", "done"}
  /\ Len(messages) <= limit
  /\ messages' = Append(messages, UserMessage(file_path))
  /\ iteration' = 0
  /\ pc' = "loop"
  /\ call' = None
  /\ reply' = None
  /\ tool_calls' = <<>>
  /\ idx' = 0
  /\ result' = None
  /\ nDeciding' = 0
  /\ nSummary' = 0
  /\ nTools' = 0
  /\ allToolCalls' = TRUE
  /\ base' = Len(messages)
  /\ UNCHANGED <<tools, max_iterations, op, checks>>

\* analyze_file on a conversation of at most MaxHistory messages
AnalyzeFile(file_path) == analyze_file(MaxHistory, file_path)

\* analyze_file called again on an agent whose earlier run has ended, with
\* no reset() in between
AnalyzeFileAgain(file_path) ==
  /\ pc = "done"
  /\ analyze_file(MaxAgain, file_path)

(* ------------------------------ _agent_loop ---------------------------- *)
\* while iteration < self.max_iterations
LoopCondition_le == iteration <= max_iterations
LoopCondition == iteration < max_iterations

\* tools=tool_schemas if tool_schemas else None
OfferedTools_default(reg) == Some(get_tool_schemas(DefaultTools))
OfferedTools(reg) ==
  IF Len(get_tool_schemas(reg)) > 0 THEN Some(get_tool_schemas(reg)) ELSE None

\* One pass of the loop head: count the iteration and issue the Deciding
\* chat call with the conversation and the registry's schemas.
LoopDecide_uncounted ==
  /\ pc = "loop"
  /\ LoopCondition
  /\ call' = Some([messages |-> messages, tools |-> OfferedTools(tools)])
  /\ reply' = None
  /\ pc' = "chat"
  /\ nDeciding' = nDeciding + 1
  /\ UNCHANGED <<messages, tools, max_iterations, iteration, tool_calls, idx,
                 result, nSummary, nTools, allToolCalls, base, op, checks>>
LoopDecide ==
  /\ pc = "loop"
  /\ LoopCondition
  /\ iteration' = iteration + 1
  /\ call' = Some([messages |-> messages, tools |-> OfferedTools(tools)])
  /\ reply' = None
  /\ pc' = "chat"
  /\ nDeciding' = nDeciding + 1
  /\ UNCHANGED <<messages, tools, max_iterations, tool_calls, idx, result,
                 nSummary, nTools, allToolCalls, base, op, checks>>

\* The loop ran out of iterations: append the summary prompt and issue the
\* forced-summary chat call with tools=None.
LoopExhausted_offering ==
  /\ pc = "loop"
  /\ ~LoopCondition
  /\ messages' = Append(messages, SummaryPrompt)
  /\ call' = Some([messages |-> messages', tools |-> OfferedTools(tools)])
  /\ reply' = None
  /\ pc' = "summary"
  /\ nSummary' = nSummary + 1
  /\ UNCHANGED <<tools, max_iterations, iteration, tool_calls, idx, result,
                 nDeciding, nTools, allToolCalls, base, op, checks>>
LoopExhausted ==
  /\ pc = "loop"
  /\ ~LoopCondition
  /\ messages' = Append(messages, SummaryPrompt)
  /\ call' = Some([messages |-> messages', tools |-> None])
  /\ reply' = None
  /\ pc' = "summary"
  /\ nSummary' = nSummary + 1
  /\ UNCHANGED <<tools, max_iterations, iteration, tool_calls, idx, result,
                 nDeciding, nTools, allToolCalls, base, op, checks>>

\* The LLM client answers the chat call in flight: a response or an error.
ChatReply(r) ==
  /\ pc \in {"chat", "summary"}
  /\ IsNone(reply)
  /\ (pc = "summary" /\ r.kind = "return") => r.value \in SummaryResponses
  /\ reply' = Some(r)
  /\ allToolCalls' = (allToolCalls /\ r.kind = "return" /\ has_tool_calls(r.value))
  /\ UNCHANGED <<messages, tools, max_iterations, pc, iteration, call,
                 tool_calls, idx, result, nDeciding, nSummary, nTools, base, op, checks>>

\* The run ends with analyze_file returning response.content.
Return(content) ==
  /\ result' = Some(Returned(content))
  /\ pc' = "done"

\* The run ends with exception e leaving _agent_loop.
Propagate(e) ==
  /\ result' = Some(Raised(AnalyzeFileExcept(e)))
  /\ pc' = "done"

\* except Exception as e: raise AgentError(f"LLM call failed: {str(e)}")
LLMCallFailed(e) == Exc("AgentError", <<"LLM call failed: ">> \o e.msg, Some(e))

ProtocolViolation ==
  Exc("AgentError", <<"LLM returned no content and no tool calls">>, None)

\* The except clause around the Deciding chat call: wrap and leave the loop.
DecideExcept_retry(e) ==
  /\ pc' = "loop"
  /\ UNCHANGED <<messages, tool_calls, idx, result>>
DecideExcept(e) ==
  /\ Propagate(LLMCallFailed(e))
  /\ UNCHANGED <<messages, tool_calls, idx>>

\* The else branch for a response with no tool calls and no content.
NoContent_asFinal(r) ==
  /\ Return(r.content)
  /\ UNCHANGED <<messages, tool_calls, idx>>
NoContent(r) ==
  /\ Propagate(ProtocolViolation)
  /\ UNCHANGED <<messages, tool_calls, idx>>

\* The loop body after the Deciding chat call has answered.
Decide_recording ==
  /\ pc = "chat"
  /\ ~IsNone(reply)
  /\ reply' = None
  /\ IF Get(reply).kind = "raise"
     THEN DecideExcept(Get(reply).exc)
     ELSE LET r == Get(reply).value IN
          IF has_tool_calls(r)
          THEN /\ tool_calls' = r.tool_calls
               /\ idx' = 0
               /\ pc' = "acting"
               /\ messages' = Append(messages,
                    [role |-> "assistant", content |-> r.content,
                     tool_call_id |-> None, name |-> None,
                     tool_calls |-> Some(r.tool_calls)])
               /\ UNCHANGED result
          ELSE IF Truthy(r.content)
          THEN /\ messages' = Append(messages, AssistantMessage(r.content))
               /\ Return(r.content)
               /\ UNCHANGED <<tool_calls, idx>>
          ELSE NoContent(r)
  /\ UNCHANGED <<tools, max_iterations, iteration, call, nDeciding, nSummary,
                 nTools, allToolCalls, base, op, checks>>
Decide ==
  /\ pc = "chat"
  /\ ~IsNone(reply)
  /\ reply' = None
  /\ IF Get(reply).kind = "raise"
     THEN DecideExcept(Get(reply).exc)
     ELSE LET r == Get(reply).value IN
          IF has_tool_calls(r)
          THEN /\ tool_calls' = r.tool_calls
               /\ idx' = 0
               /\ pc' = "acting"
               /\ UNCHANGED <<messages, result>>
          ELSE IF Truthy(r.content)
          THEN /\ messages' = Append(messages, AssistantMessage(r.content))
               /\ Return(r.content)
               /\ UNCHANGED <<tool_calls, idx>>
          ELSE NoContent(r)
  /\ UNCHANGED <<tools, max_iterations, iteration, call, nDeciding, nSummary,
                 nTools, allToolCalls, base, op, checks>>

\* raise AgentTimeoutError(f"Agent exceeded {self.max_iterations} iterations ...")
TimeoutError ==
  Exc("AgentTimeoutError",
      <<"Agent exceeded ", ToString(max_iterations),
        " iterations without completing analysis">>, None)

\* except Exception as e: raise AgentError(f"Failed to get final summary: {str(e)}")
SummaryFailed(e) ==
  Exc("AgentError", <<"Failed to get final summary: ">> \o e.msg, Some(e))

\* The try block of the forced summary after its chat call has answered.
Summary ==
  /\ pc = "summary"
  /\ ~IsNone(reply)
  /\ reply' = None
  /\ IF Get(reply).kind = "raise"
     THEN Propagate(SummaryFailed(Get(reply).exc))
     ELSE LET r == Get(reply).value IN
          IF Truthy(r.content)
          THEN Return(r.content)
          ELSE Propagate(SummaryFailed(TimeoutError))
  /\ UNCHANGED <<messages, tools, max_iterations, iteration, call, tool_calls, idx,
                 nDeciding, nSummary, nTools, allToolCalls, base, op, checks>>

(* --------------------------- _handle_tool_calls ------------------------ *)
CurrentCall == tool_calls[idx + 1]

\* The loop takes the next invocation of the response and calls
\* self.tool_registry.execute_tool(tool_name, **parameters).
ToolStart_batch ==
  /\ pc = "acting"
  /\ idx < Len(tool_calls)
  /\ pc' = "tool"
  /\ reply' = None
  /\ nTools' = nTools + (Len(tool_calls) - idx)
  /\ UNCHANGED <<messages, tools, max_iterations, iteration, call, tool_calls,
                 idx, result, nDeciding, nSummary, allToolCalls, base, op, checks>>
ToolStart ==
  /\ pc = "acting"
  /\ idx < Len(tool_calls)
  /\ pc' = "tool"
  /\ reply' = None
  /\ nTools' = nTools + 1
  /\ UNCHANGED <<messages, tools, max_iterations, iteration, call, tool_calls,
                 idx, result, nDeciding, nSummary, allToolCalls, base, op, checks>>

\* Python's error for execute(self, file_path, **kwargs) called without file_path
MissingArgument ==
  Exc("TypeError",
      <<"execute() missing 1 required positional argument: ", "'file_path'">>, None)

\* What the call tool.execute(**parameters) can answer: Python rejects the
\* call when a required argument is missing; otherwise the tool returns text
\* or raises its ToolExecutionError.
tool_execute(tool, parameters) ==
  IF ~(RequiredParams(tool.name) \subseteq ParamNames(parameters))
  THEN {Raised(MissingArgument)}
  ELSE {Returned(t) : t \in ToolTexts}
       \cup {Raised(ToolExecutionError(tool.name, c)) :
               c \in ToolFailureCauses(parameters[ParamValue(parameters, "file_path")][2])}

\* execute_tool's own code around the tool's answer:
\* result = tool.execute(**parameters); return result   (no handler)
PassThrough_wrapping(tool, answer) ==
  IF answer.kind = "raise" /\ answer.exc.type # "ToolExecutionError"
  THEN Raised(ToolExecutionError(tool.name, answer.exc.msg))
  ELSE answer
PassThrough(tool, answer) == answer

\* The ways ToolRegistry.execute_tool can go for one invocation: get_tool
\* fails for an absent name and no tool is called; otherwise the tool found
\* is called once and its answer is execute_tool's answer.
execute_calls(reg, tc) ==
  IF get_tool(reg, tc.name).kind = "raise"
  THEN {[delegated |-> None, out |-> get_tool(reg, tc.name)]}
  ELSE LET tool == get_tool(reg, tc.name).value IN
         {[delegated |-> Some([tool |-> tool, parameters |-> tc.parameters,
                               out |-> answer]),
           out |-> PassThrough(tool, answer)] :
            answer \in tool_execute(tool, tc.parameters)}

execute_tool(reg, tc) == {c.out : c \in execute_calls(reg, tc)}

\* The registry answers the execute_tool call in flight.
ToolReply ==
  /\ pc = "tool"
  /\ IsNone(reply)
  /\ \E r \in execute_tool(tools, CurrentCall) :
       /\ reply' = Some(r)
       /\ allToolCalls' = (allToolCalls /\ r.kind = "return")
  /\ UNCHANGED <<messages, tools, max_iterations, pc, iteration, call,
                 tool_calls, idx, result, nDeciding, nSummary, nTools, base, op, checks>>

\* except ToolExecutionError as e
Catches_none(e) == FALSE
Catches(e) == IsSubclass(e.type, "ToolExecutionError")

\* result = f"ERROR: {str(e)}"
ErrorResult_bare(e) == e.msg
ErrorResult(e) == <<"ERROR: ">> \o e.msg

\* self.messages.append(Message(role="tool", ...)) and the next turn of the
\* for loop, or the return to the while loop after the last invocation
AppendToolResult_front(text) ==
  /\ messages' = <<ToolMessage(tool_calls, idx + 1, text)>> \o messages
  /\ idx' = idx + 1
  /\ pc' = IF idx + 1 < Len(tool_calls) THEN "acting" ELSE "loop"
  /\ UNCHANGED result
AppendToolResult(text) ==
  /\ messages' = Append(messages, ToolMessage(tool_calls, idx + 1, text))
  /\ idx' = idx + 1
  /\ pc' = IF idx + 1 < Len(tool_calls) THEN "acting" ELSE "loop"
  /\ UNCHANGED result

\* The rest of the for-loop body once execute_tool has answered.
ToolDone_rollback ==
  /\ pc = "tool"
  /\ ~IsNone(reply)
  /\ reply' = None
  /\ IF Get(reply).kind = "return"
     THEN AppendToolResult(Get(reply).value)
     ELSE IF Catches(Get(reply).exc)
     THEN AppendToolResult(ErrorResult(Get(reply).exc))
     ELSE /\ Propagate(Get(reply).exc)
          /\ messages' = SubSeq(messages, 1, base)
          /\ UNCHANGED idx
  /\ UNCHANGED <<tools, max_iterations, iteration, call, tool_calls, nDeciding,
                 nSummary, nTools, allToolCalls, base, op, checks>>
ToolDone ==
  /\ pc = "tool"
  /\ ~IsNone(reply)
  /\ reply' = None
  /\ IF Get(reply).kind = "return"
     THEN AppendToolResult(Get(reply).value)
     ELSE IF Catches(Get(reply).exc)
     THEN AppendToolResult(ErrorResult(Get(reply).exc))
     ELSE /\ Propagate(Get(reply).exc)
          /\ UNCHANGED <<messages, idx>>
  /\ UNCHANGED <<tools, max_iterations, iteration, call, tool_calls, nDeciding,
                 nSummary, nTools, allToolCalls, base, op, checks>>

(* --------------------------------- reset ------------------------------- *)
Reset_empty ==
  /\ pc \in {"idle", "done"}
  /\ messages' = <<>>
  /\ pc' = "idle"
  /\ UNCHANGED <<tools, max_iterations, iteration, call, reply, tool_calls, idx,
                 result, nDeciding, nSummary, nTools, allToolCalls, base, op, checks>>
Reset ==
  /\ pc \in {"idle", "done"}
  /\ messages' = <<SystemMessage>>
  /\ pc' = "idle"
  /\ UNCHANGED <<tools, max_iterations, iteration, call, reply, tool_calls, idx,
                 result, nDeciding, nSummary, nTools, allToolCalls, base, op, checks>>

(* ------------------------ calls on the ToolRegistry -------------------- *)
\* the names and the tool objects callers use
ToolNames == {"read_file", "static_analysis", "complexity_analysis"}
AskedNames == ToolNames \cup {"frobnicate"}
RegistrableTools == {Tool(n, k) : n \in ToolNames, k \in 1..MaxInst}

RegistryCall(name, arg, out) == Some([name |-> name, arg |-> arg, out |-> out])

Register(tool) ==
  /\ pc = "idle"
  /\ tools' = register(tools, tool)
  /\ op' = RegistryCall("register", tool, Returned(None))
  /\ UNCHANGED <<messages, max_iterations, pc, iteration, call, reply, tool_calls,
                 idx, result, nDeciding, nSummary, nTools, allToolCalls, base, checks>>

Unregister(tool_name) ==
  /\ pc = "idle"
  /\ tools' = unregister(tools, tool_name)
  /\ op' = RegistryCall("unregister", tool_name, Returned(None))
  /\ UNCHANGED <<messages, max_iterations, pc, iteration, call, reply, tool_calls,
                 idx, result, nDeciding, nSummary, nTools, allToolCalls, base, checks>>

GetTool(tool_name) ==
  /\ pc = "idle"
  /\ op' = RegistryCall("get_tool", tool_name, get_tool(tools, tool_name))
  /\ UNCHANGED <<messages, tools, max_iterations, pc, iteration, call, reply,
                 tool_calls, idx, result, nDeciding, nSummary, nTools,
                 allToolCalls, base, checks>>

HasTool(tool_name) ==
  /\ pc = "idle"
  /\ op' = RegistryCall("has_tool", tool_name, Returned(has_tool(tools, tool_name)))
  /\ UNCHANGED <<messages, tools, max_iterations, pc, iteration, call, reply,
                 tool_calls, idx, result, nDeciding, nSummary, nTools,
                 allToolCalls, base, checks>>

\* ToolRegistry.execute_tool called directly; the record of the call also
\* keeps the call of tool.execute it made, if any.
ExecuteTool(tc) ==
  /\ pc = "idle"
  /\ \E c \in execute_calls(tools, tc) :
       op' = Some([name |-> "execute_tool", arg |-> tc, out |-> c.out,
                   delegated |-> c.delegated])
  /\ UNCHANGED <<messages, tools, max_iterations, pc, iteration, call, reply,
                 tool_calls, idx, result, nDeciding, nSummary, nTools,
                 allToolCalls, base, checks>>

\* ToolRegistry.get_tool_schemas called directly
GetToolSchemas ==
  /\ pc = "idle"
  /\ op' = RegistryCall("get_tool_schemas", None, Returned(get_tool_schemas(tools)))
  /\ UNCHANGED <<messages, tools, max_iterations, pc, iteration, call, reply,
                 tool_calls, idx, result, nDeciding, nSummary, nTools,
                 allToolCalls, base, checks>>

\* ToolRegistry.__len__
Length ==
  /\ pc = "idle"
  /\ op' = RegistryCall("__len__", None, Returned(Len(tools)))
  /\ UNCHANGED <<messages, tools, max_iterations, pc, iteration, call, reply,
                 tool_calls, idx, result, nDeciding, nSummary, nTools,
                 allToolCalls, base, checks>>

\* A tool that ran, or the caller's other code, changes the registry the
\* agent holds between two cycles of a run.
ChangedTools == {Tool("static_analysis", 1)}
RegistryChange ==
  /\ pc = "loop"
  /\ \E t \in ChangedTools :
       tools' \in {register(tools, t), unregister(tools, t.name)}
  /\ tools' # tools
  /\ UNCHANGED <<messages, max_iterations, pc, iteration, call, reply, tool_calls,
                 idx, result, nDeciding, nSummary, nTools, allToolCalls, base, op, checks>>

(* --------------------------- calls on a Message ------------------------ *)
\* the roles the Field description of Message.role names
Roles == {"system", "user", "assistant", "tool"}

\* the keyword arguments callers construct a Message with
MessageFields ==
  [role : Roles \cup {"wizard"},
   content : Contents,
   tool_call_id : {None, Some(""), Some(CallId(1))},
   name : {None, Some(""), Some("read_file")},
   tool_calls : {None, Some(<<>>),
                 Some(<<[id |-> CallId(1), name |-> "read_file"]>>)}]

\* Message(**fields): the pydantic model declares role: str and no validator
Message_new(f) ==
  Returned([role |-> f.role, content |-> f.content,
            tool_call_id |-> f.tool_call_id, name |-> f.name,
            tool_calls |-> f.tool_calls])

\* These calls read their argument only, so a behaviour makes one of them on
\* a fresh object.
NewMessage ==
  /\ pc = "idle"
  /\ IsNone(op)
  /\ \E f \in MessageFields :
       op' = Some([name |-> "Message", arg |-> f, out |-> Message_new(f)])
  /\ UNCHANGED <<messages, tools, max_iterations, pc, iteration, call, reply,
                 tool_calls, idx, result, nDeciding, nSummary, nTools,
                 allToolCalls, base, checks>>

\* to_dict called on the message a construction has just returned
ToDict ==
  /\ pc = "idle"
  /\ ~IsNone(op)
  /\ Get(op).name = "Message"
  /\ Get(op).out.kind = "return"
  /\ op' = Some([name |-> "to_dict", arg |-> Get(op).out.value,
                 out |-> Returned(to_dict(Get(op).out.value))])
  /\ UNCHANGED <<messages, tools, max_iterations, pc, iteration, call, reply,
                 tool_calls, idx, result, nDeciding, nSummary, nTools,
                 allToolCalls, base, checks>>

(* ------------------------ calls on a ToolDefinition -------------------- *)
ParamKeys == {"file_path", "max_lines", "encoding"}
ParamInputs ==
  {ToolParameter(k, t, <<"about ", k>>, r, d) :
     k \in ParamKeys, t \in {"string", "integer"}, r \in BOOLEAN,
     d \in {None, Some(""), Some("100")}}

\* the parameter dicts of at most MaxParams items, keyed by parameter name
ParameterDicts ==
  UNION { { [i \in 1..n |-> [key |-> f[i].name, param |-> f[i]]] :
              f \in { g \in [1..n -> ParamInputs] :
                        \A i, j \in 1..n : (g[i].name = g[j].name) => (i = j) } }
          : n \in 0..MaxParams }

DefinitionInputs ==
  {ToolDefinition("read_file", ToolDescription("read_file"), ps) :
     ps \in ParameterDicts}

ToFunctionSchema ==
  /\ pc = "idle"
  /\ IsNone(op)
  /\ \E d \in DefinitionInputs :
       op' = Some([name |-> "to_function_schema", arg |-> d,
                   out |-> Returned(to_function_schema(d))])
  /\ UNCHANGED <<messages, tools, max_iterations, pc, iteration, call, reply,
                 tool_calls, idx, result, nDeciding, nSummary, nTools,
                 allToolCalls, base, checks>>

(* ---------------------- the request GroqLLMClient sends ---------------- *)
\* Python's `x or d` for an Optional number x: None and 0 are falsy.
\* Temperatures are written in tenths (7 is 0.7).
OrDefault(x, d) == IF ~IsNone(x) /\ Get(x) # 0 THEN Get(x) ELSE d

\* request_params as chat builds it, before the provider call
request_params(client, args) ==
  [model |-> client.model,
   messages |-> [i \in DOMAIN args.messages |-> to_dict(args.messages[i])],
   temperature |-> OrDefault(args.temperature, client.default_temperature),
   max_tokens |-> OrDefault(args.max_tokens, client.default_max_tokens),
   tools |-> IF ~IsNone(args.tools) /\ Len(Get(args.tools)) > 0
             THEN args.tools ELSE None,
   tool_choice |-> IF ~IsNone(args.tools) /\ Len(Get(args.tools)) > 0
                   THEN Some("auto") ELSE None]

\* GroqLLMClient(api_key, model, temperature, max_tokens)
ClientInputs ==
  [model : {"llama-3.3-70b-versatile"},
   default_temperature : {7, 2},
   default_max_tokens : {4096}]

\* the arguments of chat: temperature anywhere in 0.0 .. 1.0, a positive
\* max_tokens, or neither
ChatArguments ==
  [messages : {<<SystemMessage>>, <<SystemMessage, UserMessage("Main.java")>>},
   tools : {None, Some(<<>>), Some(get_tool_schemas(DefaultTools))},
   temperature : {None, Some(0), Some(3), Some(10)},
   max_tokens : {None, Some(1), Some(256)}]

\* chat, up to the request it hands to self.client.chat.completions.create
ChatRequest ==
  /\ pc = "idle"
  /\ IsNone(op)
  /\ \E client \in ClientInputs, args \in ChatArguments :
       op' = Some([name |-> "chat", client |-> client, arg |-> args,
                   sent |-> request_params(client, args)])
  /\ UNCHANGED <<messages, tools, max_iterations, pc, iteration, call, reply,
                 tool_calls, idx, result, nDeciding, nSummary, nTools,
                 allToolCalls, base, checks>>

(* ------------------------------- HealthCheck --------------------------- *)
MaxChecks == 2

\* self.checks.append((name, passed, message))
add_check_front(list, name, passed, message) ==
  <<(<<name, passed, message>>)>> \o list
add_check(list, name, passed, message) ==
  Append(list, <<name, passed, message>>)

CheckNames == {"Settings", "LLM", "Test Check"}
CheckMessages == {"Test passed", "Invalid key format"}

\* the arguments of one add_check call; message is optional and defaults to ""
CheckArguments ==
  [name : CheckNames, passed : BOOLEAN,
   message : {None} \cup {Some(m) : m \in CheckMessages}]

\* checker.add_check(name, passed[, message])
AddCheck ==
  /\ pc = "idle"
  /\ Len(checks) < MaxChecks
  /\ \E a \in CheckArguments :
       /\ checks' = add_check(checks, a.name, a.passed,
                              IF IsNone(a.message) THEN "" ELSE Get(a.message))
       /\ op' = Some([name |-> "add_check", arg |-> a, out |-> Returned(None)])
  /\ UNCHANGED <<messages, tools, max_iterations, pc, iteration, call, reply,
                 tool_calls, idx, result, nDeciding, nSummary, nTools,
                 allToolCalls, base>>

\* The marks the source puts in front of its messages are left out below.
MaxFailing == 1   \* most items of one list the environment lets fail

\* one add_check call per entry of a list, in the order of the list
RECURSIVE add_each(_, _)
add_each(list, entries) ==
  IF Len(entries) = 0 THEN list
  ELSE add_each(add_check(list, entries[1][1], entries[1][2], entries[1][3]),
                Tail(entries))

\* all(passed for _, passed, _ in entries)
AllPassed(entries) == \A i \in DOMAIN entries : entries[i][2]

\* what a check_* method leaves: the checks list and its return value
Checked(list, returned) == [checks |-> list, result |-> returned]

\* sys.version_info >= (3, 11), on (major, minor)
VersionAtLeast(v, required) ==
  v[1] > required[1] \/ (v[1] = required[1] /\ v[2] >= required[2])

check_python_version(list, env) ==
  IF VersionAtLeast(env.version, <<3, 11>>)
  THEN Checked(add_check(list, "Python Version", TRUE,
                         "Python " \o ToString(env.version[1]) \o "."
                           \o ToString(env.version[2])), TRUE)
  ELSE Checked(add_check(list, "Python Version", FALSE,
                         "Python " \o ToString(env.version[1]) \o "."
                           \o ToString(env.version[2]) \o " (requires 3.11+)"),
               FALSE)

dependencies ==
  << <<"groq", "Groq API client">>, <<"pydantic", "Data validation">>,
     <<"rich", "Terminal output">>, <<"typer", "CLI framework">>,
     <<"loguru", "Logging">>, <<"httpx", "HTTP client">> >>

check_dependencies(list, env) ==
  LET entries == [i \in DOMAIN dependencies |->
                    <<"Package: " \o dependencies[i][1],
                      dependencies[i][1] \notin env.not_installed,
                      dependencies[i][2]>>]
  IN Checked(add_each(list, entries), AllPassed(entries))

check_settings_load(list, env) ==
  IF IsNone(env.settings_error)
  THEN Checked(add_check(list, "Settings", TRUE, "Loaded successfully"), TRUE)
  ELSE Checked(add_check(list, "Settings", FALSE,
                         "Error: " \o Get(env.settings_error)), FALSE)

check_environment_variables(list, env) ==
  LET key == IF env.primary_llm = "groq"
             THEN << <<"GROQ_API_KEY", Len(env.groq_api_key) > 0,
                       IF Len(env.groq_api_key) > 0 THEN "Set" ELSE "Not set">> >>
             ELSE IF env.primary_llm = "anthropic"
             THEN << <<"ANTHROPIC_API_KEY", Len(env.anthropic_api_key) > 0,
                       IF Len(env.anthropic_api_key) > 0 THEN "Set"
                       ELSE "Not set">> >>
             ELSE <<>>
      found == key \o << <<"ENVIRONMENT", TRUE, env.environment>>,
                         <<"LOG_LEVEL", TRUE, env.log_level>> >>
      entries == [i \in DOMAIN found |->
                    <<"Env: " \o found[i][1], found[i][2], found[i][3]>>]
  IN Checked(add_each(list, entries), AllPassed(found))

directories ==
  <<"data/memory", "data/logs", "data/cache", "config", "config/prompts">>

check_directories(list, env) ==
  LET entries == [i \in DOMAIN directories |->
                    <<"Directory: " \o directories[i],
                      directories[i] \notin env.missing,
                      IF directories[i] \notin env.missing
                      THEN "Exists" ELSE "Missing">>]
  IN Checked(add_each(list, entries), AllPassed(entries))

\* directory.name of settings.log_dir, settings.cache_dir, settings.memory_dir
test_dirs == <<"logs", "cache", "memory">>

check_write_permissions(list, env) ==
  LET entries == [i \in DOMAIN test_dirs |->
                    <<"Write: " \o test_dirs[i],
                      test_dirs[i] \notin env.read_only,
                      IF test_dirs[i] \notin env.read_only
                      THEN "Writable" ELSE "Permission denied">>]
  IN Checked(add_each(list, entries), AllPassed(entries))

\* settings.groq_api_key and settings.groq_api_key.startswith("gsk_"), on a
\* key written as its prefix followed by the rest
check_llm_connectivity(list, env) ==
  IF env.primary_llm = "groq"
  THEN IF Len(env.groq_api_key) > 0 /\ env.groq_api_key[1] = "gsk_"
       THEN Checked(add_check(list, "LLM API Key", TRUE, "Key format valid"),
                    TRUE)
       ELSE Checked(add_check(list, "LLM API Key", FALSE, "Invalid key format"),
                    FALSE)
  ELSE IF env.primary_llm = "ollama"
  THEN Checked(add_check(list, "LLM", TRUE, "Local Ollama"), TRUE)
  ELSE Checked(add_check(list, "LLM", TRUE, "Using " \o env.primary_llm), TRUE)

\* results = [self.check_python_version(), ...]; return all(results)
run_all_checks_lazy(list, env) ==
  LET Then(c, next) == IF c.result THEN next ELSE c
      c1 == check_python_version(list, env)
      c2 == Then(c1, check_dependencies(c1.checks, env))
      c3 == Then(c2, check_settings_load(c2.checks, env))
      c4 == Then(c3, check_environment_variables(c3.checks, env))
      c5 == Then(c4, check_directories(c4.checks, env))
      c6 == Then(c5, check_write_permissions(c5.checks, env))
      c7 == Then(c6, check_llm_connectivity(c6.checks, env))
  IN Checked(c7.checks, c7.result)
run_all_checks(list, env) ==
  LET c1 == check_python_version(list, env)
      c2 == check_dependencies(c1.checks, env)
      c3 == check_settings_load(c2.checks, env)
      c4 == check_environment_variables(c3.checks, env)
      c5 == check_directories(c4.checks, env)
      c6 == check_write_permissions(c5.checks, env)
      c7 == check_llm_connectivity(c6.checks, env)
  IN Checked(c7.checks,
             c1.result /\ c2.result /\ c3.result /\ c4.result /\ c5.result
               /\ c6.result /\ c7.result)

\* at most n elements of S
UpTo(S, n) == {T \in SUBSET S : Cardinality(T) <= n}

\* settings as Settings() can build them: a groq agent has a non-empty key
\* (validate_groq_key), and the attributes of the built object always read
LLMSettings ==
  {[primary_llm |-> "groq", groq_api_key |-> k]
     : k \in {<<"gsk_", "live">>, <<"sk-", "other">>}}
  \cup {[primary_llm |-> l, groq_api_key |-> <<>>]
          : l \in {"ollama", "claude", "openai"}}

\* what the checks find on the machine
Environments ==
  {[version |-> v, not_installed |-> n, settings_error |-> None,
    primary_llm |-> l.primary_llm, groq_api_key |-> l.groq_api_key,
    anthropic_api_key |-> <<>>, environment |-> "development",
    log_level |-> "INFO", missing |-> m, read_only |-> r]
     : v \in {<<3, 10>>, <<3, 11>>, <<3, 12>>},
       n \in UpTo({dependencies[i][1] : i \in DOMAIN dependencies}, MaxFailing),
       l \in LLMSettings,
       m \in UpTo({directories[i] : i \in DOMAIN directories}, MaxFailing),
       r \in UpTo({test_dirs[i] : i \in DOMAIN test_dirs}, MaxFailing)}

\* checker.run_all_checks() on a checker nothing has been called on
RunAllChecks ==
  /\ pc = "idle"
  /\ IsNone(op)
  /\ checks = <<>>
  /\ \E env \in Environments :
       /\ checks' = run_all_checks(checks, env).checks
       /\ op' = Some([name |-> "run_all_checks", arg |-> env,
                      out |-> Returned(run_all_checks(checks, env).result)])
  /\ UNCHANGED <<messages, tools, max_iterations, pc, iteration, call, reply,
                 tool_calls, idx, result, nDeciding, nSummary, nTools,
                 allToolCalls, base>>

HealthNext == AddCheck \/ RunAllChecks
HealthSpec == Init /\ [][HealthNext]_vars

(* ----------------------------- specification --------------------------- *)
\* what self.llm.chat can answer: the agent talks to a GroqLLMClient
ChatReplies == {GroqChat(o) : o \in ProviderOutcomes}

Next ==
  \/ \E p \in FilePaths : AnalyzeFile(p)
  \/ LoopDecide
  \/ LoopExhausted
  \/ \E r \in ChatReplies : ChatReply(r)
  \/ Decide
  \/ Summary
  \/ ToolStart
  \/ ToolReply
  \/ ToolDone
  \/ Reset

Spec == Init /\ [][Next]_vars

\* the registry used on its own, before an agent runs with it
RegNext ==
  \/ \E t \in RegistrableTools : Register(t)
  \/ \E n \in AskedNames : Unregister(n)
  \/ \E n \in AskedNames : GetTool(n)
  \/ \E n \in AskedNames : HasTool(n)
  \/ Length
  \/ \E tc \in Invocations : ExecuteTool(tc)
  \/ GetToolSchemas

RegSpec == Init /\ [][RegNext]_vars

\* the value objects used on their own
LibNext ==
  \/ NewMessage
  \/ ToDict
  \/ ToFunctionSchema
  \/ ChatRequest

LibSpec == Init /\ [][LibNext]_vars

\* runs of the agent while the registry it holds is changed
DynNext == Next \/ RegistryChange

DynSpec == Init /\ [][DynNext]_vars

\* An agent with its default tools and a budget of at most one cycle, used
\* for several analyses one after the other.
RunsInit ==
  /\ Init
  /\ tools = DefaultTools
  /\ max_iterations \in 0..1

RunsNext ==
  \/ Next
  \/ \E p \in FilePaths : AnalyzeFileAgain(p)

RunsSpec == RunsInit /\ [][RunsNext]_vars

TypeOK ==
  /\ pc \in {"idle", "loop", "chat", "summary", "acting", "tool", "done"}
  /\ iteration \in 0..(MaxIter + 1)
  /\ Len(messages) >= 1
  /\ messages[1] = SystemMessage

(* ------------------------- observations for claims --------------------- *)
Ended          == pc = "done" /\ ~IsNone(result)
EndedReturning == Ended /\ Get(result).kind = "return"
EndedRaising   == Ended /\ Get(result).kind = "raise"
ReplyPending   == ~IsNone(reply)
ReplyRaised    == ReplyPending /\ Get(reply).kind = "raise"
ReplyReturned  == ReplyPending /\ Get(reply).kind = "return"
LastMessage    == messages[Len(messages)]
NonEmptyText(o) == Len(o) = 1 /\ Len(o[1]) > 0
RunCounters    == <<nDeciding, nSummary, nTools>>

\* C1: for max_iterations = N >= 1, a run in which every chat reply carries a
\* tool call and every chat and tool call returns ends after exactly N
\* Deciding chat calls and exactly one forced-summary chat call; no run ever
\* issues more than N Deciding calls or more than one forced-summary call.
C1_Termination ==
  /\ nDeciding <= (IF max_iterations > 0 THEN max_iterations ELSE 0)
  /\ nSummary <= 1
  /\ (Ended /\ max_iterations >= 1 /\ allToolCalls)
       => (nDeciding = max_iterations /\ nSummary = 1)

C1_Witness ==
  /\ Ended
  /\ allToolCalls
  /\ max_iterations = MaxIter
  /\ nDeciding = MaxIter
  /\ nSummary = 1
  /\ nTools >= MaxIter

\* C2: when the LLM client raises during a chat call (Deciding or forced
\* summary), the very next step ends the run with an AgentError that wraps the
\* client's error, the conversation equals the one the chat call was issued
\* with, and no chat call or tool execution is issued; an ended run issues
\* none either.
C2_ChatRaiseIsFatal ==
  [][ /\ (pc \in {"chat", "summary"} /\ ReplyRaised)
         => /\ pc' = "done"
            /\ ~IsNone(result')
            /\ Get(result').kind = "raise"
            /\ IsSubclass(Get(result').exc.type, "AgentError")
            /\ Get(reply).exc \in Chain(Get(result').exc)
            /\ messages' = Get(call).messages
            /\ messages' = messages
            /\ RunCounters' = RunCounters
      /\ (pc = "done" /\ pc' # "loop")
         => (pc' \in {"done", "idle"} /\ RunCounters' = RunCounters)
    ]_vars

C2_Witness ==
  /\ EndedRaising
  /\ \E e \in Chain(Get(result).exc) : IsSubclass(e.type, "LLMError")
  /\ nDeciding = 2
  /\ nTools >= 1
  /\ messages = Get(call).messages

\* C3: when a tool raises a tool-execution error during Acting, the next step
\* appends the tool-result message "ERROR: " + str(error) tagged with the
\* invocation's id and tool name, the run does not end, the next invocation of
\* the response (if any) is taken up, and after the last one control is back
\* at the loop head.
C3_ToolErrorContained ==
  [][ (pc = "tool" /\ ReplyRaised /\ Get(reply).exc.type = "ToolExecutionError")
        => /\ messages' = Append(messages,
                 [role |-> "tool",
                  content |-> Some(<<"ERROR: ">> \o Get(reply).exc.msg),
                  tool_call_id |-> Some(tool_calls[idx + 1].id),
                  name |-> Some(tool_calls[idx + 1].name),
                  tool_calls |-> None])
           /\ idx' = idx + 1
           /\ IsNone(result')
           /\ pc' = (IF idx + 1 < Len(tool_calls) THEN "acting" ELSE "loop")
    ]_vars

C3_Witness ==
  /\ pc = "acting"
  /\ idx = 1
  /\ Len(tool_calls) = 2
  /\ LastMessage.role = "tool"
  /\ LastMessage.content = Some(<<"ERROR: ", "Tool '", "read_file", "' failed: ",
                                  "File not found: ", "Main.java">>)

\* the tokens of a text
Tokens(text) == {text[i] : i \in DOMAIN text}

\* C4: when the model requests a name that is not registered, the next step
\* appends a tool-result message whose content starts with "ERROR:" and
\* contains the registered tool names, and the run does not end.
C4_NotFoundFedBack ==
  [][ (pc = "tool" /\ ReplyRaised /\ Get(reply).exc.type = "ToolNotFoundError")
        => /\ pc' # "done"
           /\ IsNone(result')
           /\ Len(messages') = Len(messages) + 1
           /\ messages'[Len(messages')].role = "tool"
           /\ NonEmptyText(messages'[Len(messages')].content)
           /\ Head(Get(messages'[Len(messages')].content)) = "ERROR: "
           /\ \A i \in DOMAIN tools :
                tools[i].name \in Tokens(Get(messages'[Len(messages')].content))
    ]_vars

\* C5: when the budget is exhausted and the forced-summary chat call returns
\* no content, the error analyze_file raises is an AgentTimeoutError whose
\* message names max_iterations; analyze_file raises an AgentTimeoutError in
\* no other situation.
C5_TimeoutClass ==
  [][ /\ (/\ pc = "summary"
          /\ max_iterations >= 1
          /\ ReplyReturned
          /\ ~NonEmptyText(Get(reply).value.content))
         => /\ pc' = "done"
            /\ ~IsNone(result')
            /\ Get(result').kind = "raise"
            /\ IsSubclass(Get(result').exc.type, "AgentTimeoutError")
            /\ ToString(max_iterations) \in Tokens(Get(result').exc.msg)
      /\ (/\ ~IsNone(result')
          /\ result' # result
          /\ Get(result').kind = "raise"
          /\ IsSubclass(Get(result').exc.type, "AgentTimeoutError"))
         => (pc = "summary" /\ ReplyReturned /\ ~NonEmptyText(Get(reply).value.content))
    ]_vars

\* C6: a Deciding reply with no tool calls and null content makes the next
\* step end the run with the protocol-violation AgentError, in every cycle;
\* and whenever analyze_file returns, the returned text is neither null nor
\* the empty string.
C6_NeverEmptyAnswer ==
  [][ /\ (pc = "chat" /\ ReplyReturned
            /\ Len(Get(reply).value.tool_calls) = 0
            /\ Len(Get(reply).value.content) = 0)
         => /\ pc' = "done"
            /\ ~IsNone(result')
            /\ Get(result').kind = "raise"
            /\ IsSubclass(Get(result').exc.type, "AgentError")
            /\ RootCause(Get(result').exc).msg
                 = <<"LLM returned no content and no tool calls">>
            /\ messages' = messages
      /\ (~IsNone(result') /\ Get(result').kind = "return")
         => NonEmptyText(Get(result').value)
    ]_vars

C6_Witness ==
  /\ EndedRaising
  /\ RootCause(Get(result).exc).msg = <<"LLM returned no content and no tool calls">>
  /\ nDeciding = 2
  /\ nTools >= 1

\* C7 as stated: the step that handles a Deciding response ends the run with
\* a return exactly when the response is_final() (no tool calls, content not
\* null), and then the returned text is the response's content.
C7_FinalIffIsFinal ==
  [][ (pc = "chat" /\ ReplyReturned)
        => LET r == Get(reply).value
               final == Len(r.tool_calls) = 0 /\ Len(r.content) = 1
           IN /\ (pc' = "done" /\ ~IsNone(result') /\ Get(result').kind = "return")
                   <=> final
              /\ final => /\ Get(result').value = r.content
                          /\ messages' = Append(messages,
                               [role |-> "assistant", content |-> r.content,
                                tool_call_id |-> None, name |-> None,
                                tool_calls |-> None])
    ]_vars

\* C7 amended: the step that handles a Deciding response ends the run with a
\* return exactly when the response has no tool calls and its content is
\* non-empty (neither null nor ""); then that content is appended as the
\* assistant's message and returned.  A response with no tool calls and
\* content "" ends the run with the protocol-violation AgentError.
C7_FinalIffNonEmpty ==
  [][ (pc = "chat" /\ ReplyReturned)
        => LET r == Get(reply).value
               final == Len(r.tool_calls) = 0 /\ NonEmptyText(r.content)
           IN /\ (pc' = "done" /\ ~IsNone(result') /\ Get(result').kind = "return")
                   <=> final
              /\ final => /\ Get(result').value = r.content
                          /\ messages' = Append(messages,
                               [role |-> "assistant", content |-> r.content,
                                tool_call_id |-> None, name |-> None,
                                tool_calls |-> None])
              /\ (Len(r.tool_calls) = 0 /\ r.content = Some(<<>>))
                   => /\ pc' = "done"
                      /\ Get(result').kind = "raise"
                      /\ RootCause(Get(result').exc).msg
                           = <<"LLM returned no content and no tool calls">>
    ]_vars

C7_Witness ==
  /\ EndedReturning
  /\ tools = <<>>
  /\ nDeciding = 1
  /\ nSummary = 0
  /\ nTools = 0
  /\ Get(result).value = Some(<<"Done.">>)
  /\ LastMessage.role = "assistant"
  /\ LastMessage.content = Some(<<"Done.">>)

\* C8: during and after an Acting phase the conversation is the one the
\* Deciding call was issued with followed by exactly one tool-result message
\* per invocation handled so far, the j-th of them tagged with the id and tool
\* name of the j-th invocation listed in the response.  When the phase hands
\* control back to the loop, every listed invocation has its message.
C8_ToolResultsInOrder ==
  (pc \in {"acting", "tool"} \/ (pc = "loop" /\ idx > 0))
    => /\ Len(messages) = Len(Get(call).messages) + idx
       /\ SubSeq(messages, 1, Len(Get(call).messages)) = Get(call).messages
       /\ idx <= Len(tool_calls)
       /\ (pc = "loop" => idx = Len(tool_calls))
       /\ \A j \in 1..idx :
            LET m == messages[Len(Get(call).messages) + j]
                tc == tool_calls[j]
            IN /\ m.role = "tool"
               /\ m.tool_call_id = Some(tc.id)
               /\ m.name = Some(tc.name)
               /\ NonEmptyText(m.content)

C8_Witness ==
  /\ pc = "loop"
  /\ idx = 2
  /\ Len(tool_calls) = 2
  /\ messages[Len(messages) - 1].tool_call_id = Some("call_1")
  /\ Head(Get(messages[Len(messages) - 1].content)) = "ERROR: "
  /\ LastMessage.tool_call_id = Some("call_2")
  /\ LastMessage.content = Some(<<"OK">>)

\* C9: Scenario A (fresh agent, max_iterations = 1, the one Deciding response
\* requests one registered tool that returns "OK", the forced summary answers
\* "Done.") ends with 6 messages: system, user, assistant, tool, user,
\* assistant.
ScenarioA ==
  /\ EndedReturning
  /\ base = 1
  /\ max_iterations = 1
  /\ nDeciding = 1
  /\ nSummary = 1
  /\ nTools = 1
  /\ Get(result).value = Some(<<"Done.">>)
  /\ \E i \in DOMAIN messages :
       messages[i].role = "tool" /\ messages[i].content = Some(<<"OK">>)

C9_ScenarioA ==
  ScenarioA
    => /\ Len(messages) = 6
       /\ [i \in 1..6 |-> messages[i].role]
            = <<"system", "user", "assistant", "tool", "user", "assistant">>

\* C10: whenever analyze_file has returned a result, the last message of the
\* conversation is an assistant message whose content is the returned text.
C10_FinalAnswerRecorded ==
  EndedReturning
    => /\ LastMessage.role = "assistant"
       /\ LastMessage.content = Get(result).value
\* the step that leaves the loop head for the forced summary
ExhaustedStep ==
  /\ pc = "loop"
  /\ iteration >= max_iterations
  /\ pc' = "summary"
  /\ messages' = Append(messages,
       [role |-> "user",
        content |-> Some(<<"Please provide a final summary of your analysis now based on what you've learned so far.">>),
        tool_call_id |-> None, name |-> None, tool_calls |-> None])
  /\ call' = Some([messages |-> messages', tools |-> None])
  /\ nSummary' = nSummary + 1
  /\ nDeciding' = nDeciding

\* C11 as stated: at the loop head with the budget spent, the next step
\* appends exactly one user message asking for a summary and issues one chat
\* call with that conversation and no tool schemas; no further chat call
\* follows it; and when that call returns non-null content, analyze_file
\* returns exactly that content.
C11_ForcedSummaryNonNull ==
  [][ /\ (pc = "loop" /\ iteration >= max_iterations) => ExhaustedStep
      /\ (pc = "summary")
           => (pc' \in {"summary", "done"} /\ messages' = messages
               /\ RunCounters' = RunCounters)
      /\ (pc = "summary" /\ max_iterations >= 1 /\ ReplyReturned
            /\ Len(Get(reply).value.content) = 1)
           => /\ pc' = "done"
              /\ result' = Some([kind |-> "return",
                                 value |-> Get(reply).value.content])
    ]_vars

\* C11 amended: the same, except that analyze_file returns the forced
\* summary's content exactly when that content is non-empty (neither null
\* nor ""); a forced summary with null or empty content ends the run with an
\* AgentError.
C11_ForcedSummaryNonEmpty ==
  [][ /\ (pc = "loop" /\ iteration >= max_iterations) => ExhaustedStep
      /\ (pc = "summary")
           => (pc' \in {"summary", "done"} /\ messages' = messages
               /\ RunCounters' = RunCounters)
      /\ (pc = "summary" /\ ReplyReturned /\ NonEmptyText(Get(reply).value.content))
           => /\ pc' = "done"
              /\ result' = Some([kind |-> "return",
                                 value |-> Get(reply).value.content])
      /\ (pc = "summary" /\ ReplyReturned /\ ~NonEmptyText(Get(reply).value.content))
           => /\ pc' = "done"
              /\ ~IsNone(result')
              /\ Get(result').kind = "raise"
              /\ IsSubclass(Get(result').exc.type, "AgentError")
    ]_vars

C11_Witness ==
  /\ EndedReturning
  /\ max_iterations = MaxIter
  /\ nDeciding = MaxIter
  /\ nSummary = 1
  /\ Get(call).tools = None
  /\ Get(call).messages = messages
  /\ LastMessage.role = "user"
  /\ Len(messages) >= 3 + MaxIter
  /\ messages[Len(messages) - 1].role = "tool"
  /\ Get(result).value = Some(<<"Done.">>)
\* C12: in every reachable state every assistant message of the conversation
\* has non-empty content or at least one tool-invocation request, and every
\* tool-result message has an id and a tool name, which its to_dict form
\* carries too; the tool-result messages of the current Acting phase carry
\* the id and name of the invocation they answer.
C12_ConversationInvariant ==
  /\ \A i \in DOMAIN messages :
       LET m == messages[i] IN
         /\ (m.role = "assistant")
              => \/ NonEmptyText(m.content)
                 \/ (Len(m.tool_calls) = 1 /\ Len(m.tool_calls[1]) >= 1)
         /\ (m.role = "tool")
              => /\ Len(m.tool_call_id) = 1
                 /\ Len(m.name) = 1
                 /\ {"role", "tool_call_id", "name"} \subseteq DOMAIN to_dict(m)
                 /\ to_dict(m)["role"] = "tool"
                 /\ to_dict(m)["tool_call_id"] = m.tool_call_id[1]
                 /\ to_dict(m)["name"] = m.name[1]
  /\ (pc \in {"acting", "tool"} \/ (pc = "loop" /\ idx > 0))
       => \A j \in 1..idx :
            LET d == to_dict(messages[Len(Get(call).messages) + j]) IN
              /\ d["tool_call_id"] = tool_calls[j].id
              /\ d["name"] = tool_calls[j].name

C12_Witness ==
  /\ EndedReturning
  /\ LastMessage.role = "assistant"
  /\ nTools = 2
  /\ idx = 2
  /\ messages[Len(messages) - 1].role = "tool"
  /\ messages[Len(messages) - 2].role = "tool"
  /\ to_dict(messages[Len(messages) - 1])["tool_call_id"] = "call_2"
  /\ to_dict(LastMessage) = [k \in {"role", "content"} |->
                               IF k = "role" THEN "assistant" ELSE <<"Done.">>]
\* C13: across every step of a run of analyze_file (the call itself, the
\* Deciding, Acting and Exhausted steps, and the steps that end the run with
\* a return or an error) the conversation before the step is a prefix of the
\* conversation after it, and the step appends at most one message.
C13_AppendOnly ==
  [][ (pc \notin {"idle", "done"} \/ pc' = "loop")
        => /\ Len(messages') >= Len(messages)
           /\ Len(messages') <= Len(messages) + 1
           /\ \A i \in 1..Len(messages) : messages'[i] = messages[i]
    ]_vars

C13_Witness ==
  /\ EndedRaising
  /\ nSummary = 1
  /\ nTools >= 2
  /\ Len(messages) >= 5
  /\ messages[2].role = "user"
  /\ messages[3].role = "tool"
  /\ LastMessage.role = "user"
\* C14: the step that issues a Deciding chat call passes the conversation as
\* it stands (every message, in order) and the schemas of exactly the tools
\* the registry holds at that moment, in the registry's order (no schemas
\* when it holds none), also when the registry was changed since the previous
\* cycle; while the call is in flight the conversation is still the one
\* passed.
C14_DecidingSeesCurrentState ==
  /\ [][ (pc = "loop" /\ pc' = "chat")
           => /\ Get(call').messages = messages
              /\ messages' = messages
              /\ LET offered == Get(call').tools IN
                   IF Len(tools) = 0
                   THEN Len(offered) = 0
                   ELSE /\ Len(offered) = 1
                        /\ Len(offered[1]) = Len(tools)
                        /\ \A i \in DOMAIN tools :
                             /\ offered[1][i].type = "function"
                             /\ offered[1][i].function.name = tools[i].name
       ]_vars
  /\ [](pc = "chat" => Get(call).messages = messages)

C14_Witness ==
  /\ pc = "chat"
  /\ nDeciding = 2
  /\ nTools >= 1
  /\ Len(tools) = 2
  /\ Len(Get(Get(call).tools)) = 2
  /\ Get(Get(call).tools)[2].function.name = "complexity_analysis"
  /\ Len(Get(call).messages) >= 3
\* the steps of a run: the agent's own steps and the replies of the calls it
\* waits for
RunStep ==
  \/ LoopDecide
  \/ LoopExhausted
  \/ \E r \in ChatReplies : ChatReply(r)
  \/ Decide
  \/ Summary
  \/ ToolStart
  \/ ToolReply
  \/ ToolDone

\* every chat call and every tool execution returns, and the agent's code
\* keeps running
FairSpec == Spec /\ WF_vars(RunStep)

\* C15: for max_iterations = N >= 1 and whatever the client answers, a run
\* issues at most N Deciding chat calls (the only ones that are offered
\* tools) and at most N + 1 chat calls in all, and a run that was started
\* ends, by a return or a raised error.
C15_BoundedAndEnds ==
  /\ [](max_iterations >= 1
          => /\ nDeciding <= max_iterations
             /\ nDeciding + nSummary <= max_iterations + 1)
  /\ [](pc = "summary" => Len(Get(call).tools) = 0)
  /\ [](pc = "chat" => nDeciding >= 1)
  /\ ((pc = "loop") ~> (pc = "done" /\ ~IsNone(result)))

C15_Witness ==
  /\ Ended
  /\ max_iterations = MaxIter
  /\ nDeciding = MaxIter
  /\ nSummary = 1
  /\ nTools = MaxIter * MaxCalls
\* C16: a reset() step, whatever ran before it, leaves the conversation equal
\* to the single system message carrying SYSTEM_PROMPT, which is the
\* conversation of a newly constructed agent, and leaves the registry's
\* contents and max_iterations as they were; an agent that is idle always has
\* exactly that conversation.
C16_ResetRestoresInitial ==
  /\ [][ (pc \in {"idle", "done"} /\ pc' = "idle")
           => /\ messages' = <<[role |-> "system", content |-> Some(SYSTEM_PROMPT),
                                tool_call_id |-> None, name |-> None,
                                tool_calls |-> None]>>
              /\ tools' = tools
              /\ max_iterations' = max_iterations
       ]_vars
  /\ [](pc = "idle" => (Len(messages) = 1 /\ messages[1].role = "system"))

C16_Witness ==
  /\ pc = "idle"
  /\ ~IsNone(result)
  /\ Get(result).kind = "return"
  /\ nDeciding = MaxIter
  /\ nTools >= 2
  /\ tools = DefaultTools
  /\ max_iterations = MaxIter
  /\ messages = <<SystemMessage>>
\* C17: when the model requests a registered tool without its required
\* parameter file_path, execute_tool answers with a ToolExecutionError whose
\* message names the tool and the parameter, and the step that handles the
\* answer appends an "ERROR: ..." tool-result message and does not end the
\* run.
C17_MissingParameterFedBack ==
  [][ /\ (/\ pc = "tool"
          /\ ~ReplyPending
          /\ ReplyPending'
          /\ \E i \in DOMAIN tools : tools[i].name = tool_calls[idx + 1].name
          /\ \A i \in DOMAIN tool_calls[idx + 1].parameters :
               tool_calls[idx + 1].parameters[i][1] # "file_path")
         => /\ Get(reply').kind = "raise"
            /\ Get(reply').exc.type = "ToolExecutionError"
            /\ tool_calls[idx + 1].name \in Tokens(Get(reply').exc.msg)
            /\ \E i \in DOMAIN Get(reply').exc.msg :
                 Get(reply').exc.msg[i] \in {"file_path", "'file_path'"}
      /\ (/\ pc = "tool"
          /\ ReplyPending
          /\ \E i \in DOMAIN tools : tools[i].name = tool_calls[idx + 1].name
          /\ \A i \in DOMAIN tool_calls[idx + 1].parameters :
               tool_calls[idx + 1].parameters[i][1] # "file_path")
         => /\ pc' # "done"
            /\ IsNone(result')
            /\ Len(messages') = Len(messages) + 1
            /\ messages'[Len(messages')].role = "tool"
            /\ Head(Get(messages'[Len(messages')].content)) = "ERROR: "
    ]_vars
\* C18: whenever GroqLLMClient.chat raises, an error that comes from a
\* response that could not be parsed (an undecodable argument payload) is an
\* LLMResponseError and not an LLMConnectionError, and an LLMConnectionError
\* comes from a failure of the provider call itself.
C18_DistinctErrorKinds ==
  (pc \in {"chat", "summary"} /\ ReplyRaised)
    => LET e == Get(reply).exc IN
         /\ (RootCause(e).type = "JSONDecodeError")
              => (e.type = "LLMResponseError" /\ e.type # "LLMConnectionError")
         /\ (e.type = "LLMConnectionError")
              => (Len(e.context) = 1 /\ e.context[1].type = "APIConnectionError")
\* the tools a registry holds under a name, and the names it holds
Held(reg, n) == {reg[i] : i \in {j \in DOMAIN reg : reg[j].name = n}}
HeldNames(reg) == {reg[i].name : i \in DOMAIN reg}

\* C19: every registry call keeps the names unique; register(tool) makes the
\* registry hold exactly that tool under its name and changes nothing under
\* any other name; unregister(name) removes the name, changes nothing under
\* any other name, and changes nothing at all when the name is absent;
\* has_tool(name) answers true exactly for the held names, len() answers the
\* number of distinct held names, and neither changes the registry.
C19_RegistryMap ==
  [][ LET o == Get(op') IN
        /\ Cardinality(HeldNames(tools')) = Len(tools')
        /\ (o.name = "register")
             => /\ Held(tools', o.arg.name) = {o.arg}
                /\ \A n \in AskedNames \ {o.arg.name} : Held(tools', n) = Held(tools, n)
        /\ (o.name = "unregister")
             => /\ Held(tools', o.arg) = {}
                /\ \A n \in AskedNames \ {o.arg} : Held(tools', n) = Held(tools, n)
                /\ (Held(tools, o.arg) = {}) => (tools' = tools)
        /\ (o.name = "has_tool")
             => /\ tools' = tools
                /\ o.out = [kind |-> "return", value |-> (o.arg \in HeldNames(tools))]
        /\ (o.name = "__len__")
             => /\ tools' = tools
                /\ o.out = [kind |-> "return", value |-> Cardinality(HeldNames(tools))]
    ]_vars

C19_Witness ==
  /\ ~IsNone(op)
  /\ Get(op).name = "register"
  /\ Get(op).arg = [name |-> "read_file", inst |-> 2]
  /\ Len(tools) = 3
  /\ tools[1] = [name |-> "read_file", inst |-> 2]
  /\ tools[3].name = "static_analysis"

\* C20: get_tool(name) returns the tool held under name when there is one;
\* otherwise it raises ToolNotFoundError whose message names the asked name
\* and lists the registry's names, all of them and no others; either way the
\* registry is left as it was.
C20_GetTool ==
  [][ LET o == Get(op') IN
        (o.name = "get_tool")
          => /\ tools' = tools
             /\ (Held(tools, o.arg) # {})
                  => (o.out.kind = "return" /\ Held(tools, o.arg) = {o.out.value})
             /\ (Held(tools, o.arg) = {})
                  => /\ o.out.kind = "raise"
                     /\ o.out.exc.type = "ToolNotFoundError"
                     /\ o.out.exc.msg[2] = o.arg
                     /\ o.out.exc.msg[3] = "' not found. Available tools: "
                     /\ Tokens(SubSeq(o.out.exc.msg, 4, Len(o.out.exc.msg))) \ {", "}
                          = HeldNames(tools)
    ]_vars

C20_Witness ==
  /\ ~IsNone(op)
  /\ Get(op).name = "get_tool"
  /\ Get(op).arg = "frobnicate"
  /\ Get(op).out.kind = "raise"
  /\ Len(tools) = 2
  /\ tools[1] = [name |-> "complexity_analysis", inst |-> 2]
  /\ Len(Get(op).out.exc.msg) = 6
\* C21: execute_tool(name, **params) leaves the registry as it was; when the
\* name is not held it calls no tool and raises ToolNotFoundError; otherwise
\* it calls the execute of the tool held under the name exactly once, with
\* the given parameters, and its own outcome is that call's outcome: the same
\* text when the tool returned, the same error when the tool raised.
C21_ExecuteDelegates ==
  [][ LET o == Get(op') IN
        (o.name = "execute_tool")
          => /\ tools' = tools
             /\ (Held(tools, o.arg.name) = {})
                  => /\ Len(o.delegated) = 0
                     /\ o.out.kind = "raise"
                     /\ o.out.exc.type = "ToolNotFoundError"
             /\ (Held(tools, o.arg.name) # {})
                  => /\ Len(o.delegated) = 1
                     /\ Held(tools, o.arg.name) = {o.delegated[1].tool}
                     /\ o.delegated[1].parameters = o.arg.parameters
                     /\ o.out = o.delegated[1].out
    ]_vars

C21_Witness ==
  /\ ~IsNone(op)
  /\ Get(op).name = "execute_tool"
  /\ Get(op).arg.name = "read_file"
  /\ Get(op).arg.parameters = <<>>
  /\ Len(Get(op).delegated) = 1
  /\ Get(op).delegated[1].tool = [name |-> "read_file", inst |-> 2]
  /\ Get(op).out.kind = "raise"
  /\ Get(op).out.exc.type = "TypeError"

\* the names a registry holds, in its order
NameOrder(reg) == [i \in DOMAIN reg |-> reg[i].name]

\* a sequence of names without one name
Without(names, n) == LET other(x) == x # n IN SelectSeq(names, other)

C23_ToDictFields ==
  (~IsNone(op) /\ Get(op).name = "to_dict")
    => LET m == Get(op).arg
           d == Get(op).out.value
       IN /\ "role" \in DOMAIN d
          /\ d["role"] = m.role
          /\ \A k \in {"content", "tool_call_id", "name", "tool_calls"} :
               (Len(m[k]) = 0) => (k \notin DOMAIN d)
          /\ ("content" \in DOMAIN d) <=> (Len(m.content) = 1)
          /\ ("content" \in DOMAIN d) => (d["content"] = m.content[1])
          /\ (DOMAIN d \cap {"tool_call_id", "name"} # {}) => (m.role = "tool")

\* C24: constructing a Message with a role other than system, user,
\* assistant or tool is rejected with an error.
C24_RoleValidated ==
  (/\ ~IsNone(op)
   /\ Get(op).name = "Message"
   /\ Get(op).arg.role \notin {"system", "user", "assistant", "tool"})
    => Get(op).out.kind = "raise"
\* C25: the schema to_function_schema() returns for a tool definition has
\* type "function" and the definition's name and description; its properties
\* have one entry per declared parameter, with that parameter's type and
\* description and with a default exactly when the parameter's default is
\* set (then that default); its required list holds exactly the parameters
\* whose required flag is true, each once; and the call changes neither the
\* registry nor the conversation.
C25_SchemaProjection ==
  /\ [](
       (~IsNone(op) /\ Get(op).name = "to_function_schema")
         => LET d == Get(op).arg
                items == d.parameters
                f == Get(op).out.value.function
                required == {items[i].key : i \in {j \in DOMAIN items : items[j].param.required}}
            IN /\ Get(op).out.kind = "return"
               /\ Get(op).out.value.type = "function"
               /\ f.name = d.name
               /\ f.description = d.description
               /\ f.parameters.type = "object"
               /\ DOMAIN f.parameters.properties = {items[i].key : i \in DOMAIN items}
               /\ \A i \in DOMAIN items :
                    LET p == items[i].param
                        q == f.parameters.properties[items[i].key]
                    IN /\ q["type"] = p.type
                       /\ q["description"] = p.description
                       /\ ("default" \in DOMAIN q) <=> (Len(p.default) = 1)
                       /\ ("default" \in DOMAIN q) => (q["default"] = p.default[1])
                       /\ DOMAIN q \subseteq {"type", "description", "default"}
               /\ {f.parameters.required[j] : j \in DOMAIN f.parameters.required} = required
               /\ Len(f.parameters.required) = Cardinality(required))
  /\ [][ (Get(op').name = "to_function_schema")
           => (tools' = tools /\ messages' = messages) ]_vars

C25_Witness ==
  /\ ~IsNone(op)
  /\ Get(op).name = "to_function_schema"
  /\ Len(Get(op).arg.parameters) = 2
  /\ Get(op).arg.parameters[1].param.default = Some("")
  /\ Get(op).arg.parameters[1].param.required
  /\ Get(op).arg.parameters[2].param.default = None
  /\ ~Get(op).arg.parameters[2].param.required
  /\ Get(op).out.value.function.parameters.required = <<Get(op).arg.parameters[1].key>>
  /\ "default" \in DOMAIN Get(op).out.value.function.parameters.properties[
                            Get(op).arg.parameters[1].key]
\* the tool-result messages the current run has appended
ToolMessagesOfRun ==
  Cardinality({i \in (base + 1)..Len(messages) : messages[i].role = "tool"})

\* C26: a run is strictly sequential.  While a chat call is in flight no tool
\* execution is (every execution started has its tool-result message), and
\* each pass of the loop has issued one chat call; while a tool executes it
\* is the only execution without its message, it is the next invocation of
\* the response, and the messages of all earlier invocations of the phase
\* are already in the conversation; at the loop head and between two
\* invocations nothing is in flight.
C26_StrictlySequential ==
  /\ (pc \in {"loop", "chat", "summary", "acting", "tool"}) => (nDeciding = iteration)
  /\ (pc \in {"chat", "summary"}) => (nTools = ToolMessagesOfRun)
  /\ (pc \in {"loop", "acting"}) => (nTools = ToolMessagesOfRun /\ IsNone(reply))
  /\ (pc = "tool")
       => /\ nTools = ToolMessagesOfRun + 1
          /\ idx < Len(tool_calls)
          /\ Len(messages) = Len(Get(call).messages) + idx
          /\ \A j \in 1..idx :
               messages[Len(Get(call).messages) + j].tool_call_id = Some(tool_calls[j].id)
  /\ (pc = "done") => (nTools - ToolMessagesOfRun \in {0, 1})

C26_Witness ==
  /\ pc = "tool"
  /\ IsNone(reply)
  /\ idx = 1
  /\ nTools = MaxCalls + 2
  /\ nDeciding = 2
  /\ LastMessage.role = "tool"
  /\ LastMessage.tool_call_id = Some("call_1")
\* C27: in the request chat sends to the provider, temperature is the
\* temperature argument whenever one is given (0.0 included) and the client's
\* default only when none is given, and likewise max_tokens.
C27_ExplicitOverrides ==
  (~IsNone(op) /\ Get(op).name = "chat")
    => LET a == Get(op).arg
           c == Get(op).client
           r == Get(op).sent
       IN /\ (Len(a.temperature) = 1) => (r.temperature = a.temperature[1])
          /\ (Len(a.temperature) = 0) => (r.temperature = c.default_temperature)
          /\ (Len(a.max_tokens) = 1) => (r.max_tokens = a.max_tokens[1])
          /\ (Len(a.max_tokens) = 0) => (r.max_tokens = c.default_max_tokens)
\* C28: a new HealthCheck has an empty checks list, and every add_check call
\* leaves the records already held as they were, in place, and adds exactly
\* one record after them: the (name, passed, message) of that call.
C28_ChecksAreTheCallsInOrder ==
  /\ checks = <<>>
  /\ [][ (~IsNone(op') /\ Get(op').name = "add_check")
           => LET a == Get(op').arg
              IN /\ Len(checks') = Len(checks) + 1
                 /\ \A i \in 1..Len(checks) : checks'[i] = checks[i]
                 /\ checks'[Len(checks')][1] = a.name
                 /\ checks'[Len(checks')][2] = a.passed
                 /\ checks'[Len(checks')][3] =
                      (IF IsNone(a.message) THEN "" ELSE Get(a.message)) ]_vars

C28_Witness ==
  /\ Len(checks) = 2
  /\ checks[1] = <<"Test Check", TRUE, "Test passed">>
  /\ checks[2] = <<"Settings", FALSE, "">>
  /\ ~IsNone(op) /\ Get(op).name = "add_check" /\ IsNone(Get(op).arg.message)
C30_OnlyToolMessagesWhileActing ==
  /\ [](\A i \in DOMAIN messages : IsNone(messages[i].tool_calls))
  /\ [][ (pc \in {"acting", "tool"} /\ messages' # messages)
           => /\ Len(messages') = Len(messages) + 1
              /\ messages'[Len(messages')].role = "tool" ]_vars
  /\ [][ (pc = "chat" /\ pc' = "acting") => messages' = messages ]_vars
  /\ []((EndedReturning /\ nSummary = 0)
          => /\ Len(messages) = base + 1 + nTools + 1
             /\ messages[base + 1].role = "user"
             /\ \A j \in 1..nTools : messages[base + 1 + j].role = "tool"
             /\ messages[Len(messages)].role = "assistant")

C30_Witness ==
  /\ EndedReturning
  /\ nSummary = 0
  /\ nTools = 2
  /\ nDeciding = 2
  /\ Len(messages) = base + 4
  /\ messages[base + 2].role = "tool"
\* C31: a Deciding response with content and at least one tool call sends
\* the loop to Acting on those calls, with the conversation unchanged and
\* nothing returned; a forced-summary response with content and tool calls
\* ends the run returning the content, and no tool is started for it.
C31_ContentDroppedWithToolCalls ==
  /\ [][ (pc = "chat" /\ ~IsNone(reply) /\ Get(reply).kind = "return"
          /\ NonEmptyText(Get(reply).value.content)
          /\ Len(Get(reply).value.tool_calls) >= 1)
           => /\ pc' = "acting"
              /\ tool_calls' = Get(reply).value.tool_calls
              /\ idx' = 0
              /\ messages' = messages
              /\ result' = result ]_vars
  /\ [][ (pc = "summary" /\ ~IsNone(reply) /\ Get(reply).kind = "return"
          /\ NonEmptyText(Get(reply).value.content)
          /\ Len(Get(reply).value.tool_calls) >= 1)
           => /\ pc' = "done"
              /\ result' = Some(Returned(Get(reply).value.content))
              /\ nTools' = nTools
              /\ tool_calls' = tool_calls
              /\ idx' = idx
              /\ messages' = messages ]_vars
  /\ [](pc = "done" => nTools <= nDeciding * MaxCalls)

C31_Witness ==
  /\ EndedReturning
  /\ nSummary = 1
  /\ allToolCalls
  /\ nDeciding = 1
  /\ nTools = 1
  /\ Get(result).value = Some(<<"Done.">>)
\* C32: the step that makes analyze_file raise leaves the conversation as it
\* is, so after a failed run the user message appended at its start is still
\* there, every tool that finished has its result in the conversation, and
\* the results of the tools that ran before a fatally failing one are the
\* last messages, in the order of their calls.
C32_FailedRunNotRolledBack ==
  /\ [][ (pc' = "done" /\ ~IsNone(result') /\ Get(result').kind = "raise")
           => /\ messages' = messages
              /\ (pc = "tool")
                   => \A j \in 1..idx :
                        LET m == messages'[Len(messages') - idx + j] IN
                          /\ m.role = "tool"
                          /\ m.tool_call_id = Some(tool_calls[j].id) ]_vars
  /\ [](EndedRaising
          => /\ Len(messages) >= base + 1
             /\ messages[base + 1].role = "user"
             /\ nTools - ToolMessagesOfRun \in {0, 1})

C32_Witness ==
  /\ EndedRaising
  /\ \E e \in Chain(Get(result).exc) : e.type = "ToolNotFoundError"
  /\ Len(tool_calls) = 2
  /\ idx = 1
  /\ LastMessage.role = "tool"
  /\ LastMessage.tool_call_id = Some("call_1")
  /\ messages[base + 1].role = "user"
\* C33: every analyze_file call starts its count of Deciding cycles at zero
\* on top of the whole conversation the agent holds, adding only the new
\* user message; the first chat call of the run is sent exactly that
\* conversation; and a run reaches the forced summary only after
\* max_iterations Deciding cycles of its own.
C33_BudgetPerCallConversationPerAgent ==
  /\ [][ (pc \in {"idle", "done"} /\ pc' = "loop")
           => /\ iteration' = 0
              /\ Len(messages') = Len(messages) + 1
              /\ \A i \in 1..Len(messages) : messages'[i] = messages[i]
              /\ messages'[Len(messages')].role = "user"
              /\ base' = Len(messages) ]_vars
  /\ [][ (pc = "loop" /\ pc' = "chat" /\ nDeciding = 0)
           => /\ iteration' = 1
              /\ Get(call').messages = messages
              /\ Len(messages) = base + 1 ]_vars
  /\ [](pc \in {"loop", "chat", "acting", "tool"}
          => (nDeciding = iteration /\ iteration <= max_iterations))
  /\ [](pc = "summary" => nDeciding = max_iterations)

C33_Witness ==
  /\ pc = "chat"
  /\ base = 3
  /\ nDeciding = 1
  /\ max_iterations = 1
  /\ messages[2].role = "user"
  /\ messages[3].role = "assistant"
  /\ messages[4].role = "user"
  /\ Get(call).messages = messages
\* C34: an agent whose max_iterations is zero or negative never issues a
\* Deciding chat call and never starts a tool; its run appends the user
\* message and the forced-summary prompt and nothing else, issues one chat
\* call on that conversation with no tools offered, and ends returning the
\* content of the reply to that call or raising.
C34_NoBudgetGoesStraightToSummary ==
  /\ []((max_iterations <= 0)
          => /\ nDeciding = 0
             /\ nTools = 0
             /\ pc \notin {"chat", "acting", "tool"}
             /\ (pc = "loop") => (nSummary = 0 /\ Len(messages) = base + 1)
             /\ (pc \in {"summary", "done"})
                  => /\ nSummary = 1
                     /\ Len(messages) = base + 2
                     /\ messages[base + 1].role = "user"
                     /\ messages[base + 2].role = "user"
                     /\ Get(call).messages = messages
                     /\ IsNone(Get(call).tools)
             /\ (pc = "done") => ~IsNone(result))
  /\ [][ (max_iterations <= 0 /\ pc = "summary" /\ pc' = "done"
          /\ Get(result').kind = "return")
           => /\ Get(reply).kind = "return"
              /\ Get(result').value = Get(reply).value.content ]_vars

C34_Witness ==
  /\ max_iterations = -1
  /\ EndedReturning
  /\ nSummary = 1
  /\ nDeciding = 0
  /\ Get(result).value = Some(<<"Done.">>)
  /\ Len(messages) = base + 2
\* C35: after run_all_checks on a fresh HealthCheck the checks list holds the
\* entries of all seven checks, whichever of them failed: the Python version,
\* the six packages, the settings, the environment entries, the five
\* directories, the three write tests and the LLM entry; and the call
\* returns true exactly when every entry of the list has passed.
RecordedNames == {checks[i][1] : i \in DOMAIN checks}

C35_AllSevenChecksRun ==
  (~IsNone(op) /\ Get(op).name = "run_all_checks")
    => /\ "Python Version" \in RecordedNames
       /\ {"Package: groq", "Package: pydantic", "Package: rich",
           "Package: typer", "Package: loguru", "Package: httpx"}
            \subseteq RecordedNames
       /\ "Settings" \in RecordedNames
       /\ {"Env: ENVIRONMENT", "Env: LOG_LEVEL"} \subseteq RecordedNames
       /\ {"Directory: data/memory", "Directory: data/logs",
           "Directory: data/cache", "Directory: config",
           "Directory: config/prompts"} \subseteq RecordedNames
       /\ {"Write: logs", "Write: cache", "Write: memory"}
            \subseteq RecordedNames
       /\ RecordedNames \cap {"LLM API Key", "LLM"} # {}
       /\ Len(checks) = Cardinality(RecordedNames)
       /\ Get(op).out.kind = "return"
       /\ Get(op).out.value = (\A i \in DOMAIN checks : checks[i][2])

C35_Witness ==
  /\ ~IsNone(op) /\ Get(op).name = "run_all_checks"
  /\ Get(op).out = Returned(FALSE)
  /\ checks[1] = <<"Python Version", FALSE, "Python 3.10 (requires 3.11+)">>
  /\ Len(checks) = 20
  /\ checks[20] = <<"LLM API Key", TRUE, "Key format valid">>
  /\ \A i \in 2..20 : checks[i][2]

====
